---- MODULE Spec2Model ----
(***************************************************************************)
(* Model of package util (src/util/util.go): the signature checks          *)
(* VerifyRpmSignature, VerifyTarballSignature and VerifyGitSignature, the  *)
(* command runners they are built from, and GitSpec's revision helpers.    *)
(*                                                                         *)
(* Go strings are TLA+ strings.  An error value is a record                *)
(* [kind, subject, code]; the nil error is NilErr.  The file system, the   *)
(* gpg keyrings and the exit status of the external tools are the          *)
(* environment: a subprocess is recorded as it is issued (name, args,      *)
(* working directory) together with its exit status.                       *)
(***************************************************************************)
EXTENDS Integers, Sequences, FiniteSets, TLC

VARIABLES
    pc,          \* per call: position in VerifyTarballSignature / VerifyGitSignature
    fn,          \* per call: which of the two functions is running
    pubKeyPath,  \* per call: argument pubKeyPath
    gitSpec,     \* per call: argument gitSpec (VerifyGitSignature)
    signer,      \* per call: the key that signed the tarball / the revision
    tmpDir,      \* per call: local tmpDir ("" until os.MkdirTemp returns one)
    err,         \* per call: the returned error
    cmds,        \* per call: the subprocesses issued so far, in order
    revType,     \* per call: what typeOfGitRevision returned ("unset" before)
    removed,     \* per call: the deferred os.RemoveAll(tmpDir) has run
    dirs,        \* the temporary directories that exist
    keyring,     \* content of <dir>/eext.gpg: the public keys imported
    defaultKeys, \* content of the user's default gpg keyring
    rpmRun,      \* what the `rpm -K` subprocess does
    rpmPc,       \* position of the VerifyRpmSignature call
    rpmErr,      \* error returned by VerifyRpmSignature
    verSpec,     \* receiver of GetVersionFromRevision
    verPc,       \* position of the GetVersionFromRevision call
    verResult    \* string returned by GetVersionFromRevision

callVars == <<pc, fn, pubKeyPath, gitSpec, signer, tmpDir, err, cmds, revType,
              removed, dirs, keyring, defaultKeys>>
rpmVars == <<rpmRun, rpmPc, rpmErr>>
verVars == <<verSpec, verPc, verResult>>
vars == <<callVars, rpmVars, verVars>>

----------------------------------------------------------------------------
(* Bounds *)

NumDirs == 2
MaxOutLen == 3
MaxExitCode == 2
MaxRevLen == 4

----------------------------------------------------------------------------
(* Values *)

Calls == {"call1", "call2"}

Keys == {"K", "K2"}

PubKeyFile(k) == "/keys/" \o k \o ".pub"

PubKeyFiles == {PubKeyFile(k) : k \in Keys}

KeyOfFile(path) == CHOOSE k \in Keys : PubKeyFile(k) = path

Err(kind, subject, code) == [kind |-> kind, subject |-> subject, code |-> code]

NilErr == Err("nil", "", 0)

TempDirs == {"/tmp/eext-keyring" \o ToString(n) : n \in 1..NumDirs}

\* The clone the revisions live in, and what a revision is there: every name
\* that starts with "v" is a tag, every other non-empty hexadecimal string is
\* a commit, and nothing else is in the repository.
ClonedDir == "/src/repo"

HexDigits == {"0", "1", "2", "3", "4", "5", "6", "7", "8", "9",
              "a", "b", "c", "d", "e", "f"}

ObjectType(rev) ==
    IF rev = "" THEN "NONE"
    ELSE IF SubSeq(rev, 1, 1) = "v" THEN "TAG"
    ELSE IF \A i \in 1..Len(rev) : SubSeq(rev, i, i) \in HexDigits THEN "COMMIT"
    ELSE "NONE"

GitSpecs == [Revision : {"v1.2.0", "abcdef0123", "nosuchrev"}, ClonedDir : {ClonedDir}]

NoGitSpec == [Revision |-> "", ClonedDir |-> ""]

----------------------------------------------------------------------------
(* GitSpec methods *)

typeOfGitRevision(spec) == ""

GetVersionFromRevision(spec) == ""

\* The classifier as its comment and the design describe it: the object type
\* of the revision in the clone, "" for anything that is neither.
ClassifyRevision(spec) ==
    LET t == ObjectType(spec.Revision)
    IN IF t \in {"COMMIT", "TAG"} THEN t ELSE ""

----------------------------------------------------------------------------
(* Command runners *)

\* exec.Command(name, arg...).Run(): nil on a zero exit, else the exit error.
RunSystemCmd(ok) == IF ok THEN NilErr ELSE Err("exit", "", 1)

RunSystemCmdInDir(ok) == IF ok THEN NilErr ELSE Err("exit", "", 1)

RECURSIVE Join(_, _)
Join(arg, sep) ==
    IF arg = <<>> THEN ""
    ELSE IF Len(arg) = 1 THEN arg[1]
    ELSE arg[1] \o sep \o Join(Tail(arg), sep)

\* run = [started, exit, stdout]: whether the program could be started, its
\* exit code (-1 when a signal ended it) and what it wrote to stdout.
CheckOutput(name, arg, run) ==
    LET output == IF run.started THEN run.stdout ELSE ""
        cmdline == name \o " " \o Join(arg, " ")
    IN IF run.started /\ run.exit = 0
       THEN [output |-> output, err |-> NilErr]
       ELSE IF run.started
       THEN [output |-> output, err |-> Err("exit_code", cmdline, run.exit)]
       ELSE [output |-> output, err |-> Err("failed", cmdline, 0)]

----------------------------------------------------------------------------
(* The external tools *)

Has(args, a) == \E i \in 1..Len(args) : args[i] = a

\* The value that follows flag in args, "" when the flag is not given.
ArgAfter(args, flag) ==
    IF \E i \in 1..(Len(args) - 1) : args[i] = flag
    THEN args[(CHOOSE i \in 1..(Len(args) - 1) : args[i] = flag) + 1]
    ELSE ""

KeyRingPath(dir) == dir \o "/eext.gpg"

DefaultKeyRing == "~/.gnupg/pubring.kbx"

\* The keyring a signature check reads.  gpg given --no-default-keyring and
\* --keyring reads that keyring file; gpg started without them (as git starts
\* it for verify-commit and verify-tag, in the caller's environment) reads the
\* user's default keyring.
TrustStore(name, args) ==
    IF name = "gpg" /\ Has(args, "--no-default-keyring") /\ Has(args, "--keyring")
    THEN ArgAfter(args, "--keyring")
    ELSE DefaultKeyRing

\* The keys in a keyring file.
TrustedKeys(store) ==
    IF store = DefaultKeyRing THEN defaultKeys
    ELSE IF \E d \in dirs : KeyRingPath(d) = store
    THEN keyring[CHOOSE d \in dirs : KeyRingPath(d) = store]
    ELSE {}

Cmd(name, args, dir, store, ok) ==
    [name |-> name, args |-> args, dir |-> dir, store |-> store,
     trust |-> TrustedKeys(store), ok |-> ok]

----------------------------------------------------------------------------
(* VerifyTarballSignature and VerifyGitSignature *)

TarballPath == "/work/src.tar.gz"

TarballSigPath == "/work/src.tar.gz.sig"

\* Mutant of FreshNames: a name is taken without looking at what exists.
AnyNames(existing) == TempDirs

\* os.MkdirTemp("", "eext-keyring") makes a directory under a name no
\* existing entry has.
FreshNames(existing) == TempDirs \ existing

\* Mutant of DeferredReturn: the removal is not deferred, the return leaves at once.
ReturnWithoutDefer == "done"

\* A return after `defer os.RemoveAll(tmpDir)` runs the deferred removal
\* before the function is left.
DeferredReturn == "return"

baseArgs(dir) ==
    <<"--homedir", dir, "--no-default-keyring", "--keyring", KeyRingPath(dir)>>

\* Mutant of AfterStep: the step's error is not looked at.
AfterStepIgnoringError(e, next) == next

\* `if err := RunSystemCmd(...); err != nil { return ... }`: where the call
\* goes after a step that ended with e.
AfterStep(e, next) == IF e # NilErr THEN DeferredReturn ELSE next

\* Mutant of HasVerifyOperation: no final else, every type gets an operation.
AnyRevisionType(revisionType) == TRUE

\* Lines 276-282: the revision types a verify operation exists for.
HasVerifyOperation(revisionType) == revisionType \in {"COMMIT", "TAG"}

\* tmpDir, mkdtErr := os.MkdirTemp(...); on an error the function returns
\* before the removal is deferred.
MkdirTemp(c) ==
    /\ pc[c] = "mkdtemp"
    /\ \E d \in FreshNames(dirs) \cup {""} :
          IF d = ""
          THEN /\ err' = [err EXCEPT ![c] = Err("mkdtemp", "", 0)]
               /\ pc' = [pc EXCEPT ![c] = "done"]
               /\ UNCHANGED <<tmpDir, dirs, keyring>>
          ELSE /\ tmpDir' = [tmpDir EXCEPT ![c] = d]
               /\ dirs' = dirs \cup {d}
               /\ keyring' = [keyring EXCEPT ![d] = {}]
               /\ pc' = [pc EXCEPT ![c] = "create"]
               /\ UNCHANGED err
    /\ UNCHANGED <<fn, pubKeyPath, gitSpec, signer, cmds, revType, removed,
                   defaultKeys, rpmVars, verVars>>

\* gpg <baseArgs> --fingerprint
CreateKeyring(c) ==
    /\ pc[c] = "create"
    /\ \E ok \in BOOLEAN :
          LET args == baseArgs(tmpDir[c]) \o <<"--fingerprint">>
              e == RunSystemCmd(ok)
          IN /\ cmds' = [cmds EXCEPT ![c] = Append(@, Cmd("gpg", args, "", TrustStore("gpg", args), ok))]
             /\ err' = [err EXCEPT ![c] =
                          IF e # NilErr THEN Err("create_keyring", "", e.code) ELSE @]
             /\ pc' = [pc EXCEPT ![c] = AfterStep(e, "import")]
    /\ UNCHANGED <<fn, pubKeyPath, gitSpec, signer, tmpDir, revType, removed,
                   dirs, keyring, defaultKeys, rpmVars, verVars>>

\* gpg <baseArgs> --import pubKeyPath
ImportKey(c) ==
    /\ pc[c] = "import"
    /\ \E ok \in BOOLEAN :
          LET args == baseArgs(tmpDir[c]) \o <<"--import", pubKeyPath[c]>>
              e == RunSystemCmd(ok)
              home == ArgAfter(args, "--homedir")
          IN /\ cmds' = [cmds EXCEPT ![c] = Append(@, Cmd("gpg", args, "", TrustStore("gpg", args), ok))]
             /\ keyring' = IF ok /\ home \in dirs
                           THEN [keyring EXCEPT ![home] = @ \cup {KeyOfFile(pubKeyPath[c])}]
                           ELSE keyring
             /\ err' = [err EXCEPT ![c] =
                          IF e # NilErr THEN Err("import_key", pubKeyPath[c], e.code) ELSE @]
             /\ pc' = [pc EXCEPT ![c] = AfterStep(e, "verify")]
    /\ UNCHANGED <<fn, pubKeyPath, gitSpec, signer, tmpDir, revType, removed,
                   dirs, defaultKeys, rpmVars, verVars>>

\* gpg <baseArgs> --verify tarballSigPath tarballPath, through CheckOutput.
\* gpg exits zero exactly when a key it trusts made the signature.
TarballVerify(c) ==
    /\ pc[c] = "verify"
    /\ fn[c] = "VerifyTarballSignature"
    /\ LET args == baseArgs(tmpDir[c]) \o <<"--verify", TarballSigPath, TarballPath>>
           store == TrustStore("gpg", args)
           ok == signer[c] \in TrustedKeys(store)
           run == [started |-> TRUE, exit |-> IF ok THEN 0 ELSE 1, stdout |-> ""]
           r == CheckOutput("gpg", args, run)
       IN /\ cmds' = [cmds EXCEPT ![c] = Append(@, Cmd("gpg", args, "", store, ok))]
          /\ err' = [err EXCEPT ![c] =
                       IF r.err # NilErr
                       THEN Err("verify_tarball", TarballSigPath, r.err.code) ELSE NilErr]
          /\ pc' = [pc EXCEPT ![c] = DeferredReturn]
    /\ UNCHANGED <<fn, pubKeyPath, gitSpec, signer, tmpDir, revType, removed,
                   dirs, keyring, defaultKeys, rpmVars, verVars>>

\* Lines 273-289 for a revision typeOfGitRevision has classified as
\* revisionType.  git verify-commit / verify-tag exits zero exactly when the
\* revision is an object of that kind signed by a key gpg trusts.
GitVerifyWith(c, revisionType) ==
    /\ pc[c] = "verify"
    /\ fn[c] = "VerifyGitSignature"
    /\ revType' = [revType EXCEPT ![c] = revisionType]
    /\ LET revision == gitSpec[c].Revision
           clonedDir == gitSpec[c].ClonedDir
       IN IF HasVerifyOperation(revisionType)
          THEN LET verifyRepoCmd ==
                       IF revisionType = "COMMIT"
                       THEN <<"verify-commit", "-v", revision>>
                       ELSE <<"verify-tag", "-v", revision>>
                   store == TrustStore("git", verifyRepoCmd)
                   ok == /\ ObjectType(revision) = revisionType
                         /\ signer[c] \in TrustedKeys(store)
                   e == RunSystemCmdInDir(ok)
               IN /\ cmds' = [cmds EXCEPT ![c] =
                                Append(@, Cmd("git", verifyRepoCmd, clonedDir, store, ok))]
                  /\ err' = [err EXCEPT ![c] =
                               IF e # NilErr
                               THEN Err("verify_git", clonedDir, e.code) ELSE NilErr]
          ELSE /\ err' = [err EXCEPT ![c] = Err("invalid_revision", revision, 0)]
               /\ UNCHANGED cmds
    /\ pc' = [pc EXCEPT ![c] = DeferredReturn]
    /\ UNCHANGED <<fn, pubKeyPath, gitSpec, signer, tmpDir, removed,
                   dirs, keyring, defaultKeys, rpmVars, verVars>>

GitVerify(c) == GitVerifyWith(c, typeOfGitRevision(gitSpec[c]))

GitVerifyClassified(c) == GitVerifyWith(c, ClassifyRevision(gitSpec[c]))

\* Mutant of RemoveAll: os.Remove, which leaves a directory that has entries.
RemoveOnly(c) ==
    /\ pc[c] = "return"
    /\ dirs' = IF cmds[c] = <<>> THEN dirs \ {tmpDir[c]} ELSE dirs
    /\ removed' = [removed EXCEPT ![c] = TRUE]
    /\ pc' = [pc EXCEPT ![c] = "done"]
    /\ UNCHANGED <<fn, pubKeyPath, gitSpec, signer, tmpDir, err, cmds, revType,
                   keyring, defaultKeys, rpmVars, verVars>>

\* The deferred os.RemoveAll(tmpDir).
RemoveAll(c) ==
    /\ pc[c] = "return"
    /\ dirs' = dirs \ {tmpDir[c]}
    /\ keyring' = [d \in TempDirs |-> IF d = tmpDir[c] THEN {} ELSE keyring[d]]
    /\ removed' = [removed EXCEPT ![c] = TRUE]
    /\ pc' = [pc EXCEPT ![c] = "done"]
    /\ UNCHANGED <<fn, pubKeyPath, gitSpec, signer, tmpDir, err, cmds, revType,
                   defaultKeys, rpmVars, verVars>>

RpmIdle == rpmRun = [started |-> FALSE, exit |-> 0, stdout |-> ""]
             /\ rpmPc = "off" /\ rpmErr = NilErr

VerIdle == verSpec = NoGitSpec /\ verPc = "off" /\ verResult = ""

\* Two calls, each of either function, on any arguments.
Init ==
    /\ fn \in [Calls -> {"VerifyTarballSignature", "VerifyGitSignature"}]
    /\ pubKeyPath \in [Calls -> PubKeyFiles]
    /\ gitSpec \in [Calls -> GitSpecs \cup {NoGitSpec}]
    /\ \A c \in Calls : (gitSpec[c] = NoGitSpec) <=> (fn[c] = "VerifyTarballSignature")
    /\ signer \in [Calls -> Keys]
    /\ defaultKeys \in SUBSET Keys
    /\ pc = [c \in Calls |-> "mkdtemp"]
    /\ tmpDir = [c \in Calls |-> ""]
    /\ err = [c \in Calls |-> NilErr]
    /\ cmds = [c \in Calls |-> <<>>]
    /\ revType = [c \in Calls |-> "unset"]
    /\ removed = [c \in Calls |-> FALSE]
    /\ dirs = {}
    /\ keyring = [d \in TempDirs |-> {}]
    /\ RpmIdle
    /\ VerIdle

Next ==
    \E c \in Calls :
        \/ MkdirTemp(c)
        \/ CreateKeyring(c)
        \/ ImportKey(c)
        \/ TarballVerify(c)
        \/ GitVerify(c)
        \/ RemoveAll(c)

Spec == Init /\ [][Next]_vars

NextClassified ==
    \E c \in Calls :
        \/ MkdirTemp(c)
        \/ CreateKeyring(c)
        \/ ImportKey(c)
        \/ TarballVerify(c)
        \/ GitVerifyClassified(c)
        \/ RemoveAll(c)

SpecClassified == Init /\ [][NextClassified]_vars

----------------------------------------------------------------------------
(* VerifyRpmSignature *)

RpmPath == "/work/pkg.rpm"

Marker == "digests signatures OK"

\* strings.Index: the first offset at which substr occurs in s, -1 if none.
RECURSIVE IndexFrom(_, _, _)
IndexFrom(s, substr, i) ==
    IF i + Len(substr) > Len(s) THEN -1
    ELSE IF SubSeq(s, i + 1, i + Len(substr)) = substr THEN i
    ELSE IndexFrom(s, substr, i + 1)

Index(s, substr) == IndexFrom(s, substr, 0)

Contains(s, substr) == Index(s, substr) >= 0

\* Mutant of VerifyRpmSignature: the exit status alone decides.
VerifyRpmExitOnly(rpmPath, run) ==
    LET r == CheckOutput("rpm", <<"-K", rpmPath>>, run)
    IN IF r.err # NilErr
       THEN Err("rpm_" \o r.err.kind, r.err.subject, r.err.code)
       ELSE NilErr

VerifyRpmSignature(rpmPath, run) ==
    LET r == CheckOutput("rpm", <<"-K", rpmPath>>, run)
    IN IF r.err # NilErr
       THEN Err("rpm_" \o r.err.kind, r.err.subject, r.err.code)
       ELSE IF ~Contains(r.output, Marker)
       THEN Err("rpm_signature", rpmPath, 0)
       ELSE NilErr

\* What rpm -K may print: up to MaxOutLen pieces of its report.
Fragments == {"pkg.rpm: ", "digests ", "signatures ", "OK", "NOT "}

RECURSIVE Outputs(_)
Outputs(n) ==
    IF n = 0 THEN {""}
    ELSE Outputs(n - 1) \cup {s \o f : s \in Outputs(n - 1), f \in Fragments}

RpmRuns == [started : BOOLEAN, exit : -1..MaxExitCode, stdout : Outputs(MaxOutLen)]

CallsIdle ==
    /\ fn = [c \in Calls |-> "VerifyTarballSignature"]
    /\ pubKeyPath = [c \in Calls |-> PubKeyFile("K")]
    /\ gitSpec = [c \in Calls |-> NoGitSpec]
    /\ signer = [c \in Calls |-> "K"]
    /\ defaultKeys = {}
    /\ pc = [c \in Calls |-> "off"]
    /\ tmpDir = [c \in Calls |-> ""]
    /\ err = [c \in Calls |-> NilErr]
    /\ cmds = [c \in Calls |-> <<>>]
    /\ revType = [c \in Calls |-> "unset"]
    /\ removed = [c \in Calls |-> FALSE]
    /\ dirs = {}
    /\ keyring = [d \in TempDirs |-> {}]

InitRpm ==
    /\ rpmRun \in RpmRuns
    /\ rpmPc = "call"
    /\ rpmErr = NilErr
    /\ CallsIdle
    /\ VerIdle

RpmVerify ==
    /\ rpmPc = "call"
    /\ rpmErr' = VerifyRpmSignature(RpmPath, rpmRun)
    /\ rpmPc' = "done"
    /\ UNCHANGED <<rpmRun, callVars, verVars>>

NextRpm == RpmVerify

SpecRpm == InitRpm /\ [][NextRpm]_vars

----------------------------------------------------------------------------
(* GetVersionFromRevision *)

RevAlphabet == {"v", "a", "1", "x"}

RECURSIVE Revisions(_)
Revisions(n) ==
    IF n = 0 THEN {""}
    ELSE Revisions(n - 1) \cup {s \o ch : s \in Revisions(n - 1), ch \in RevAlphabet}

InitVersion ==
    /\ verSpec \in [Revision : Revisions(MaxRevLen), ClonedDir : {ClonedDir}]
    /\ verPc = "call"
    /\ verResult = ""
    /\ CallsIdle
    /\ RpmIdle

GetVersion ==
    /\ verPc = "call"
    /\ verResult' = GetVersionFromRevision(verSpec)
    /\ verPc' = "done"
    /\ UNCHANGED <<verSpec, callVars, rpmVars>>

NextVersion == GetVersion

SpecVersion == InitVersion /\ [][NextVersion]_vars

----------------------------------------------------------------------------
(* Properties *)

Running(c) == pc[c] \in {"create", "import", "verify", "return"}

IsGpg(cmd, verb) == cmd.name = "gpg" /\ Has(cmd.args, verb)

IsGitVerify(cmd) ==
    cmd.name = "git" /\ (Has(cmd.args, "verify-commit") \/ Has(cmd.args, "verify-tag"))

IsVerification(cmd) == IsGpg(cmd, "--verify") \/ IsGitVerify(cmd)

Range(q) == {q[i] : i \in 1..Len(q)}

\* C1: when VerifyTarballSignature or VerifyGitSignature returns, whichever
\* step failed or none, the temporary directory the call created does not
\* exist.
C1_TmpDirGoneAtReturn ==
    [][\A c \in Calls :
         (pc[c] # "done" /\ pc'[c] = "done" /\ tmpDir[c] # "") => tmpDir[c] \notin dirs']_vars

C1_Witness ==
    \E c \in Calls :
        /\ pc[c] = "done"
        /\ err[c].kind = "import_key"
        /\ tmpDir[c] # ""
        /\ removed[c]
        /\ tmpDir[c] \notin dirs

\* The marker occurs somewhere in the output.
MarkerIn(out) ==
    \E i \in 1..Len(out) : \E j \in i..Len(out) : SubSeq(out, i, j) = Marker

\* C2: VerifyRpmSignature returns nil exactly when rpm -K exited zero and its
\* output contains "digests signatures OK"; a nonzero exit returns an error
\* that carries the exit code.
C2_RpmSuccessIffMarker ==
    rpmPc = "done" =>
        /\ (rpmErr = NilErr) <=>
              (rpmRun.started /\ rpmRun.exit = 0 /\ MarkerIn(rpmRun.stdout))
        /\ (rpmRun.started /\ rpmRun.exit # 0) =>
              (rpmErr # NilErr /\ rpmErr.code = rpmRun.exit)

C2_Witness ==
    /\ rpmPc = "done"
    /\ rpmRun.started
    /\ rpmRun.exit = 0
    /\ rpmRun.stdout = "pkg.rpm: digests OK"
    /\ rpmErr # NilErr

C4_SignedRevisionVerifies ==
    \A c \in Calls :
        ( /\ pc[c] = "done"
          /\ fn[c] = "VerifyGitSignature"
          /\ ObjectType(gitSpec[c].Revision) \in {"COMMIT", "TAG"}
          /\ signer[c] = KeyOfFile(pubKeyPath[c])
          /\ Len(cmds[c]) >= 2
          /\ cmds[c][1].ok
          /\ cmds[c][2].ok )
        => /\ err[c] = NilErr
           /\ Len(cmds[c]) = 3
           /\ cmds[c][3].name = "git"
           /\ cmds[c][3].dir = gitSpec[c].ClonedDir
           /\ cmds[c][3].args[1] =
                 IF ObjectType(gitSpec[c].Revision) = "TAG"
                 THEN "verify-tag" ELSE "verify-commit"

\* C5: GetVersionFromRevision returns a tag unchanged, a commit hash of at
\* most the canonical short length unchanged, and of a longer commit hash the
\* prefix of exactly that length (for some short length of at least 1).
C5_VersionFromRevision ==
    verPc = "done" =>
        LET rev == verSpec.Revision
        IN /\ ObjectType(rev) = "TAG" => verResult = rev
           /\ ObjectType(rev) = "COMMIT" =>
                \E n \in 1..MaxRevLen :
                    IF Len(rev) <= n THEN verResult = rev
                    ELSE verResult = SubSeq(rev, 1, n)

\* C6: when typeOfGitRevision returns neither "COMMIT" nor "TAG",
\* VerifyGitSignature returns the invalid-revision error naming the revision
\* and the call has run no git verify-commit or verify-tag.
C6_UnclassifiedIsRejected ==
    \A c \in Calls :
        revType[c] \notin {"unset", "COMMIT", "TAG"} =>
            /\ err[c] = Err("invalid_revision", gitSpec[c].Revision, 0)
            /\ \A cmd \in Range(cmds[c]) : ~IsGitVerify(cmd)

C6_Witness ==
    \E c \in Calls :
        /\ pc[c] = "done"
        /\ revType[c] = ""
        /\ gitSpec[c].Revision = "nosuchrev"
        /\ err[c].subject = "nosuchrev"

\* C7 (as claimed): when the invalid-revision error is returned, the call has
\* invoked no external tool.
C7_NoToolBeforeInputError ==
    \A c \in Calls : err[c].kind = "invalid_revision" => cmds[c] = <<>>

\* C7 (amended): when the invalid-revision error is returned, the call has
\* invoked exactly gpg --fingerprint and gpg --import, both exited zero, and
\* no git subprocess.
C7_InputErrorAfterKeyringSetup ==
    \A c \in Calls :
        err[c].kind = "invalid_revision" =>
            /\ Len(cmds[c]) = 2
            /\ IsGpg(cmds[c][1], "--fingerprint") /\ cmds[c][1].ok
            /\ IsGpg(cmds[c][2], "--import") /\ cmds[c][2].ok
            /\ \A cmd \in Range(cmds[c]) : cmd.name # "git"

C7_Witness ==
    \E c \in Calls :
        /\ err[c].kind = "invalid_revision"
        /\ pc[c] = "return"
        /\ Len(cmds[c]) = 2

\* C8: two calls in progress have different temporary directories, each
\* call's directory exists for as long as the call runs, and every gpg
\* subprocess of a call names the call's own directory and keyring.
C8_CallsDoNotShareKeyringDir ==
    /\ \A c1, c2 \in Calls :
          (c1 # c2 /\ Running(c1) /\ Running(c2)) => tmpDir[c1] # tmpDir[c2]
    /\ \A c \in Calls : Running(c) =>
          /\ tmpDir[c] \in dirs
          /\ \A cmd \in Range(cmds[c]) :
                cmd.name = "gpg" =>
                    /\ ArgAfter(cmd.args, "--homedir") = tmpDir[c]
                    /\ ArgAfter(cmd.args, "--keyring") = KeyRingPath(tmpDir[c])

C8_Witness ==
    \E c1, c2 \in Calls :
        /\ c1 # c2
        /\ pc[c1] = "return" /\ Len(cmds[c1]) = 3
        /\ pc[c2] = "verify" /\ Len(cmds[c2]) = 2
        /\ tmpDir[c1] # tmpDir[c2]

\* C9: a call issues gpg --fingerprint, then gpg --import, then the
\* verification, each at most once; after a failed keyring creation or key
\* import the call returns that step's error, with no classification and no
\* verification subprocess.
C9_StepsInOrderNoRetry ==
    \A c \in Calls :
        LET k == cmds[c]
        IN /\ Len(k) <= 3
           /\ Len(k) >= 1 => IsGpg(k[1], "--fingerprint")
           /\ Len(k) >= 2 => (IsGpg(k[2], "--import") /\ k[1].ok)
           /\ Len(k) >= 3 => (IsVerification(k[3]) /\ k[2].ok)
           /\ revType[c] # "unset" => (Len(k) >= 2 /\ k[1].ok /\ k[2].ok)
           /\ (Len(k) = 1 /\ ~k[1].ok) =>
                 (err[c].kind = "create_keyring" /\ pc[c] \in {"return", "done"})
           /\ (Len(k) = 2 /\ ~k[2].ok) =>
                 (err[c].kind = "import_key" /\ pc[c] \in {"return", "done"})

C9_Witness ==
    \E c \in Calls :
        /\ pc[c] = "done"
        /\ Len(cmds[c]) = 1
        /\ ~cmds[c][1].ok
        /\ err[c].kind = "create_keyring"
        /\ revType[c] = "unset"

\* C10 (as claimed): every return, the one after a failed temporary-directory
\* allocation included, comes after the keyring-destruction step.
C10_EveryReturnDestroys ==
    \A c \in Calls : pc[c] = "done" => removed[c]

\* The step that failed first, "nil" when none did.
FirstFailure(c) ==
    LET k == cmds[c]
    IN IF tmpDir[c] = "" THEN "mkdtemp"
       ELSE IF Len(k) >= 1 /\ ~k[1].ok THEN "create_keyring"
       ELSE IF Len(k) >= 2 /\ ~k[2].ok THEN "import_key"
       ELSE IF revType[c] \notin {"unset", "COMMIT", "TAG"} THEN "invalid_revision"
       ELSE IF Len(k) >= 3 /\ ~k[3].ok
       THEN (IF fn[c] = "VerifyGitSignature" THEN "verify_git" ELSE "verify_tarball")
       ELSE "nil"

\* C10 (amended): a return comes after the keyring-destruction step exactly
\* when the temporary directory was allocated; the return after a failed
\* allocation has no destruction step before it.  The error returned is
\* that of the first step that failed.
C10_ReturnDestroysIffAllocated ==
    \A c \in Calls :
        pc[c] = "done" =>
            /\ removed[c] <=> (tmpDir[c] # "")
            /\ removed[c] <=> (err[c].kind # "mkdtemp")
            /\ err[c].kind = FirstFailure(c)

C10_Witness ==
    \E c \in Calls :
        /\ pc[c] = "done"
        /\ removed[c]
        /\ err[c].kind = "verify_tarball"

====
